---- MODULE Spec2Model ----
(***************************************************************************)
(* The AI services of the project manager: duration prediction and        *)
(* workflow optimisation, each with a model-backed path and a heuristic   *)
(* path chosen by the module-level flag useTensorFlow.                    *)
(*                                                                         *)
(* Spec is the life of a process: the load-on-startup functions, task      *)
(* creation and the requests, in any order.  SpecAnalysis starts from a    *)
(* process whose startup has finished and a drawn store, and analyses it.  *)
(*                                                                         *)
(* Numbers.  Scores and ratios are exact rationals [n, d] with d >= 0;    *)
(* d = 0 stands for the IEEE specials (0/0 = NaN, +-1/0 = +-Infinity), so *)
(* that JavaScript's division by zero is a value and not an error.        *)
(* Durations are integers in tenths of a day; the products with the       *)
(* decimal literals 0.7, 0.3 and 1.3 carry the direction of the literal's *)
(* binary64 representation error (see F07, F03, F13).                     *)
(***************************************************************************)
EXTENDS Integers, Sequences, FiniteSets, TLC

\* ------------------------------------------------------------------ bounds
MaxTasks == 2          \* most tasks in a store drawn by InitAnalysis
MaxStoredTasks == 1    \* most tasks POST /api/tasks creates in the lifecycle
MaxUsers == 2          \* users in the store; user 1 owns the project

\* ---------------------------------------------------------- domain records
Statuses == {"todo", "in-progress", "review", "completed"}
Priorities == {"low", "medium", "high"}
Users == 1..MaxUsers
Owner == 1

\* a stored task document: the fields the AI services read
TaskDocs == [status : Statuses, priority : Priorities, assignedTo : Users]

\* ------------------------------------------------------- rational numbers
Frac(n, d) == [n |-> n, d |-> d]
Zero == Frac(0, 1)
One == Frac(1, 1)
NaN == Frac(0, 0)
IsNaN(x) == x.d = 0 /\ x.n = 0
IsFinite(x) == x.d > 0

Abs(i) == IF i < 0 THEN 0 - i ELSE i
Sign(i) == IF i < 0 THEN 0 - 1 ELSE IF i > 0 THEN 1 ELSE 0

RECURSIVE Gcd(_, _)
Gcd(a, b) == IF b = 0 THEN a ELSE Gcd(b, a % b)

\* lowest terms; the specials are NaN = 0/0 and +-Infinity = +-1/0
Norm(x) ==
  IF x.d = 0 THEN Frac(Sign(x.n), 0)
  ELSE LET g == Gcd(Abs(x.n), x.d)
       IN  Frac(Sign(x.n) * (Abs(x.n) \div g), x.d \div g)

\* JavaScript a + b, a - b, a * b, a / b on numbers
FAdd(a, b) ==
  IF a.d = 0 /\ b.d = 0 THEN (IF a.n = b.n THEN a ELSE NaN)
  ELSE IF a.d = 0 THEN a
  ELSE IF b.d = 0 THEN b
  ELSE Norm(Frac(a.n * b.d + b.n * a.d, a.d * b.d))
FNeg(a) == Frac(0 - a.n, a.d)
FSub(a, b) == FAdd(a, FNeg(b))
FMul(a, b) == Norm(Frac(a.n * b.n, a.d * b.d))
FDiv(a, b) ==
  IF b.n < 0 THEN Norm(Frac((0 - a.n) * b.d, a.d * (0 - b.n)))
  ELSE Norm(Frac(a.n * b.d, a.d * b.n))
FAbs(a) == Frac(Abs(a.n), a.d)

\* JavaScript a < b, a > b, a === b: false whenever an operand is NaN
FLt(a, b) == ~IsNaN(a) /\ ~IsNaN(b) /\ a.n * b.d < b.n * a.d
FGt(a, b) == FLt(b, a)
FEq(a, b) == ~IsNaN(a) /\ ~IsNaN(b) /\ Norm(a) = Norm(b)
FLe(a, b) == FLt(a, b) \/ FEq(a, b)

\* JavaScript x || 0 on a number: NaN and 0 are falsy
OrZero(x) == IF IsNaN(x) \/ (x.n = 0 /\ x.d > 0) THEN Zero ELSE x

\* Math.max over numbers none of which is NaN
FMax(a, b) == IF FLt(a, b) THEN b ELSE a

\* ------------------------------------------------------ sequence helpers
CountIn(s, P(_)) == Cardinality({i \in DOMAIN s : P(s[i])})

RECURSIVE SumSeq(_)
SumSeq(s) == IF s = <<>> THEN 0 ELSE Head(s) + SumSeq(Tail(s))

RECURSIVE MaxSeq(_, _)
MaxSeq(s, floor) ==
  IF s = <<>> THEN floor
  ELSE MaxSeq(Tail(s), IF Head(s) > floor THEN Head(s) ELSE floor)

RECURSIVE MinSeq(_, _)
MinSeq(s, ceil) ==
  IF s = <<>> THEN ceil
  ELSE MinSeq(Tail(s), IF Head(s) < ceil THEN Head(s) ELSE ceil)

\* the users of a set in ascending id order (the order User.find returns)
RECURSIVE SortedSeq(_)
SortedSeq(S) ==
  IF S = {} THEN <<>>
  ELSE LET m == CHOOSE x \in S : \A y \in S : x <= y
       IN  <<m>> \o SortedSeq(S \ {m})

\* the first element of a non-empty sequence of workload records with the
\* largest (smallest) assignedTasks: what a stable sort puts in position 0
RECURSIVE FirstMost(_)
FirstMost(s) ==
  IF Len(s) = 1 THEN s[1]
  ELSE LET r == FirstMost(Tail(s))
       IN  IF r.assignedTasks > s[1].assignedTasks THEN r ELSE s[1]

RECURSIVE FirstLeast(_)
FirstLeast(s) ==
  IF Len(s) = 1 THEN s[1]
  ELSE LET r == FirstLeast(Tail(s))
       IN  IF r.assignedTasks < s[1].assignedTasks THEN r ELSE s[1]

\* Array.prototype.reduce((prev, cur) => prev.assignedTasks > cur.assignedTasks
\* ? prev : cur): on a tie the later element wins
RECURSIVE ReduceMost(_, _)
ReduceMost(prev, rest) ==
  IF rest = <<>> THEN prev
  ELSE ReduceMost(IF prev.assignedTasks > Head(rest).assignedTasks
                  THEN prev ELSE Head(rest), Tail(rest))

RECURSIVE ReduceLeast(_, _)
ReduceLeast(prev, rest) ==
  IF rest = <<>> THEN prev
  ELSE ReduceLeast(IF prev.assignedTasks < Head(rest).assignedTasks
                   THEN prev ELSE Head(rest), Tail(rest))

\* =================================================== workflowOptimization.js
\* optimizeWorkflow: the counts per status
TasksByStatus(tasks) ==
  [s \in Statuses |-> CountIn(tasks, LAMBDA t : t.status = s)]

\* optimizeWorkflow: progress = completed / total, 0 for an empty project
ProjectProgress(tasks) ==
  IF Len(tasks) > 0
  THEN FDiv(Frac(TasksByStatus(tasks)["completed"], 1), Frac(Len(tasks), 1))
  ELSE Zero

\* optimizeWorkflow: one workload record per team member, in team order
TaskAssignments(tasks, teamMembers) ==
  [i \in DOMAIN teamMembers |->
    LET m == teamMembers[i]
        mine(s) == CountIn(tasks, LAMBDA t : t.assignedTo = m /\ t.status = s)
    IN  [name |-> m,
         assignedTasks |-> CountIn(tasks, LAMBDA t : t.assignedTo = m),
         todoTasks |-> mine("todo"),
         inProgressTasks |-> mine("in-progress"),
         reviewTasks |-> mine("review"),
         completedTasks |-> mine("completed")]]

AssignedTaskCounts(taskAssignments) ==
  [i \in DOMAIN taskAssignments |-> taskAssignments[i].assignedTasks]

\* the ratio without its "|| 0"
StatusRatioPlain(tasks, s) ==
  FDiv(Frac(TasksByStatus(tasks)[s], 1), Frac(Len(tasks), 1))

\* tasksByStatus[s] / totalTasks || 0
StatusRatio(tasks, s) ==
  OrZero(FDiv(Frac(TasksByStatus(tasks)[s], 1), Frac(Len(tasks), 1)))

\* a balance measured by the spread between the most and the least loaded
TeamLoadBalanceSpread(tasks, teamMembers) ==
  LET counts == AssignedTaskCounts(TaskAssignments(tasks, teamMembers))
      maxTasks == MaxSeq(counts, 1)
      minTasks == MinSeq(counts, maxTasks)
  IN  FSub(One, FDiv(Frac(maxTasks - minTasks, 1), Frac(maxTasks, 1)))

\* teamLoadBalance of the heuristic path
TeamLoadBalance(tasks, teamMembers) ==
  LET counts == AssignedTaskCounts(TaskAssignments(tasks, teamMembers))
      maxTasks == MaxSeq(counts, 1)
      minTasks == MinSeq(counts, 0)
      avgTasks == FDiv(Frac(SumSeq(counts), 1), Frac(Len(teamMembers), 1))
  IN  IF maxTasks = minTasks THEN One
      ELSE FSub(One, FDiv(FSub(Frac(maxTasks, 1), avgTasks), Frac(maxTasks, 1)))

ResourceBottleneck(tasks, teamMembers) ==
  FSub(One, TeamLoadBalance(tasks, teamMembers))

TaskDistributionScore(tasks) ==
  LET maxRatio == FMax(FMax(StatusRatio(tasks, "todo"),
                            StatusRatio(tasks, "in-progress")),
                       StatusRatio(tasks, "review"))
  IN  IF FGt(maxRatio, Frac(1, 2))
      THEN FAdd(Frac(1, 2), FMul(maxRatio, Frac(1, 2)))
      ELSE maxRatio

WorkflowEfficiency(tasks) ==
  FAdd(FAbs(FSub(StatusRatio(tasks, "in-progress"), Frac(3, 10))),
       FAbs(FSub(StatusRatio(tasks, "review"), Frac(2, 10))))

TaskDependencyScore == Frac(1, 2)

PriorityAlignmentScore(tasks) ==
  LET highPriorityTasks == CountIn(tasks, LAMBDA t : t.priority = "high")
      highPriorityInProgress ==
        CountIn(tasks, LAMBDA t : t.priority = "high" /\ t.status = "in-progress")
  IN  IF highPriorityTasks > 0
      THEN FSub(One, FDiv(Frac(highPriorityInProgress, 1),
                          Frac(highPriorityTasks, 1)))
      ELSE Zero

\* the bottleneckScores array of the heuristic branch
HeuristicScores(tasks, teamMembers) ==
  << ResourceBottleneck(tasks, teamMembers),
     TaskDistributionScore(tasks),
     WorkflowEfficiency(tasks),
     TaskDependencyScore,
     PriorityAlignmentScore(tasks) >>

\* the levels with the upper threshold at 0.5
getBottleneckLevelHalf(score) ==
  IF FLt(score, Frac(3, 10)) THEN "low"
  ELSE IF FLt(score, Frac(5, 10)) THEN "medium"
  ELSE "high"

getBottleneckLevel(score) ==
  IF FLt(score, Frac(3, 10)) THEN "low"
  ELSE IF FLt(score, Frac(6, 10)) THEN "medium"
  ELSE "high"

\* Descriptions are modelled by the template chosen (text) and the values
\* interpolated into it; Includes* say whether the template's literal text
\* contains the substring generateRecommendations searches for.
getResourceBottleneckDescription(score, taskAssignments) ==
  IF Len(taskAssignments) = 0 THEN [text |-> "no_team_members"]
  ELSE LET mostTasksMember == ReduceMost(Head(taskAssignments), Tail(taskAssignments))
           leastTasksMember == ReduceLeast(Head(taskAssignments), Tail(taskAssignments))
           taskDifference == mostTasksMember.assignedTasks - leastTasksMember.assignedTasks
       IN  IF FLt(score, Frac(3, 10)) THEN [text |-> "well_balanced"]
           ELSE IF FLt(score, Frac(6, 10))
           THEN [text |-> "moderate_imbalance", most |-> mostTasksMember.name,
                 least |-> leastTasksMember.name, difference |-> taskDifference]
           ELSE [text |-> "significant_imbalance", most |-> mostTasksMember.name,
                 mostTasks |-> mostTasksMember.assignedTasks,
                 least |-> leastTasksMember.name, difference |-> taskDifference]

getTaskDistributionDescription(score, tasksByStatus) ==
  LET totalTasks == tasksByStatus["todo"] + tasksByStatus["in-progress"]
                    + tasksByStatus["review"] + tasksByStatus["completed"]
      ratio(s) == Frac(tasksByStatus[s], totalTasks)
  IN  IF totalTasks = 0 THEN [text |-> "no_tasks"]
      ELSE IF FLt(score, Frac(3, 10)) THEN [text |-> "well_distributed"]
      ELSE IF FLt(score, Frac(6, 10))
      THEN (IF FGt(ratio("todo"), Frac(5, 10)) THEN [text |-> "large_portion_to_do"]
            ELSE IF FGt(ratio("in-progress"), Frac(4, 10)) THEN [text |-> "many_in_progress"]
            ELSE IF FGt(ratio("review"), Frac(3, 10)) THEN [text |-> "significant_review"]
            ELSE [text |-> "some_issues"])
      ELSE (IF FGt(ratio("todo"), Frac(7, 10)) THEN [text |-> "most_to_do"]
            ELSE IF FGt(ratio("in-progress"), Frac(6, 10)) THEN [text |-> "too_many_in_progress"]
            ELSE IF FGt(ratio("review"), Frac(5, 10)) THEN [text |-> "stuck_in_review"]
            ELSE [text |-> "severe_issues"])

IncludesToDo(d) == d.text \in {"large_portion_to_do", "most_to_do"}
IncludesInProgress(d) == d.text \in {"many_in_progress", "too_many_in_progress"}
IncludesReview(d) == d.text \in {"significant_review", "stuck_in_review"}

getWorkflowEfficiencyDescription(score, tasksByStatus) ==
  IF FLt(score, Frac(3, 10)) THEN [text |-> "efficient"]
  ELSE IF FLt(score, Frac(6, 10)) THEN [text |-> "moderate_inefficiencies"]
  ELSE LET inProgressCount == tasksByStatus["in-progress"]
           reviewCount == tasksByStatus["review"]
       IN  IF inProgressCount > reviewCount * 3 THEN [text |-> "context_switching"]
           ELSE IF reviewCount > inProgressCount THEN [text |-> "stuck_in_review"]
           ELSE [text |-> "significant_inefficiencies"]

IncludesContextSwitching(d) == d.text = "context_switching"

getPriorityAlignmentDescription(score, tasks) ==
  LET highPriorityTodoCount ==
        CountIn(tasks, LAMBDA t : t.priority = "high" /\ t.status = "todo")
      highPriorityInProgressCount ==
        CountIn(tasks, LAMBDA t : t.priority = "high" /\ t.status = "in-progress")
  IN  IF FLt(score, Frac(3, 10)) THEN [text |-> "well_aligned"]
      ELSE IF FLt(score, Frac(6, 10))
      THEN (IF highPriorityTodoCount > highPriorityInProgressCount
            THEN [text |-> "some_waiting", waiting |-> highPriorityTodoCount]
            ELSE [text |-> "some_misalignment"])
      ELSE (IF highPriorityTodoCount > highPriorityInProgressCount * 2
            THEN [text |-> "significant_waiting", waiting |-> highPriorityTodoCount,
                  inProgress |-> highPriorityInProgressCount]
            ELSE [text |-> "significant_misalignment"])

\* the bottleneckAnalysis object built from the five scores
BottleneckAnalysis(scores, tasks, taskAssignments) ==
  [resourceBottleneck |->
     [score |-> scores[1], level |-> getBottleneckLevel(scores[1]),
      description |-> getResourceBottleneckDescription(scores[1], taskAssignments)],
   taskDistribution |->
     [score |-> scores[2], level |-> getBottleneckLevel(scores[2]),
      description |-> getTaskDistributionDescription(scores[2], TasksByStatus(tasks))],
   workflowEfficiency |->
     [score |-> scores[3], level |-> getBottleneckLevel(scores[3]),
      description |-> getWorkflowEfficiencyDescription(scores[3], TasksByStatus(tasks))],
   taskDependency |->
     [score |-> scores[4], level |-> getBottleneckLevel(scores[4]),
      description |-> [text |-> "dependency_analysis"]],
   priorityAlignment |->
     [score |-> scores[5], level |-> getBottleneckLevel(scores[5]),
      description |-> getPriorityAlignmentDescription(scores[5], tasks)]]

Dimensions == {"resourceBottleneck", "taskDistribution", "workflowEfficiency",
               "taskDependency", "priorityAlignment"}

\* generateRecommendations, one operator per block of the function
ResourceRecommendations(bottleneckAnalysis, taskAssignments) ==
  IF bottleneckAnalysis.resourceBottleneck.level = "high"
  THEN LET overloadedMembers == SelectSeq(taskAssignments, LAMBDA m : m.assignedTasks > 5)
           underutilizedMembers == SelectSeq(taskAssignments, LAMBDA m : m.assignedTasks < 3)
       IN  IF Len(overloadedMembers) > 0 /\ Len(underutilizedMembers) > 0
           THEN << [type |-> "resource", priority |-> "high",
                    action |-> "redistribute_tasks",
                    from |-> FirstMost(overloadedMembers).name,
                    fromTasks |-> FirstMost(overloadedMembers).assignedTasks,
                    to |-> FirstLeast(underutilizedMembers).name,
                    toTasks |-> FirstLeast(underutilizedMembers).assignedTasks] >>
           ELSE IF Len(overloadedMembers) > 0
           THEN << [type |-> "resource", priority |-> "high",
                    action |-> "add_resources",
                    from |-> FirstMost(overloadedMembers).name,
                    fromTasks |-> FirstMost(overloadedMembers).assignedTasks] >>
           ELSE <<>>
  ELSE IF bottleneckAnalysis.resourceBottleneck.level = "medium"
  THEN << [type |-> "resource", priority |-> "medium", action |-> "review_assignments"] >>
  ELSE <<>>

DistributionRecommendations(bottleneckAnalysis) ==
  IF bottleneckAnalysis.taskDistribution.level = "high"
  THEN LET d == bottleneckAnalysis.taskDistribution.description
       IN  IF IncludesToDo(d)
           THEN << [type |-> "workflow", priority |-> "high", action |-> "start_tasks"] >>
           ELSE IF IncludesInProgress(d)
           THEN << [type |-> "workflow", priority |-> "high", action |-> "complete_in_progress"] >>
           ELSE IF IncludesReview(d)
           THEN << [type |-> "workflow", priority |-> "high", action |-> "review_tasks"] >>
           ELSE <<>>
  ELSE <<>>

EfficiencyRecommendations(bottleneckAnalysis) ==
  IF bottleneckAnalysis.workflowEfficiency.level \in {"high", "medium"}
  THEN << [type |-> "process", priority |-> bottleneckAnalysis.workflowEfficiency.level,
           action |-> "improve_communication"] >>
       \o (IF IncludesContextSwitching(bottleneckAnalysis.workflowEfficiency.description)
           THEN << [type |-> "process", priority |-> "high", action |-> "limit_wip"] >>
           ELSE <<>>)
  ELSE <<>>

PriorityRecommendations(bottleneckAnalysis, tasks) ==
  LET highPriorityTodoTasks ==
        CountIn(tasks, LAMBDA t : t.priority = "high" /\ t.status = "todo")
  IN  IF bottleneckAnalysis.priorityAlignment.level \in {"high", "medium"}
         /\ highPriorityTodoTasks > 0
      THEN << [type |-> "priority", priority |-> "high",
               action |-> "focus_on_priorities", count |-> highPriorityTodoTasks] >>
      ELSE <<>>

\* the closing block without its generic recommendation
NoGeneralRecommendations(recommendations) == <<>>

\* the closing block: a generic recommendation when there are few specific ones
GeneralRecommendations(recommendations) ==
  IF Len(recommendations) < 2
  THEN << [type |-> "general", priority |-> "medium", action |-> "retrospective"] >>
  ELSE <<>>

generateRecommendations(bottleneckAnalysis, tasks, taskAssignments) ==
  LET specific == ResourceRecommendations(bottleneckAnalysis, taskAssignments)
                  \o DistributionRecommendations(bottleneckAnalysis)
                  \o EfficiencyRecommendations(bottleneckAnalysis)
                  \o PriorityRecommendations(bottleneckAnalysis, tasks)
  IN  specific \o GeneralRecommendations(specific)

\* generateInsights
ExpectedProgress(daysRemaining, projectProgress) ==
  LET d == Frac(daysRemaining, 1)
  IN  FSub(One, FDiv(d, FAdd(d, FDiv(FMul(projectProgress, d),
                                     FSub(One, projectProgress)))))

generateInsights(bottleneckAnalysis, tasksByStatus, daysRemaining, projectProgress) ==
  LET expectedProgress == ExpectedProgress(daysRemaining, projectProgress)
      highBottlenecks ==
        Cardinality({k \in Dimensions : bottleneckAnalysis[k].level = "high"})
      days == Frac(daysRemaining, 1)
  IN  (IF FLt(projectProgress, FSub(expectedProgress, Frac(1, 10)))
       THEN << [type |-> "risk", about |-> "behind_schedule"] >>
       ELSE IF FGt(projectProgress, FAdd(expectedProgress, Frac(1, 10)))
       THEN << [type |-> "positive", about |-> "ahead_of_schedule"] >>
       ELSE <<>>)
      \o (IF tasksByStatus["in-progress"] > 10
          THEN << [type |-> "risk", about |-> "too_many_in_progress"] >>
          ELSE <<>>)
      \o (IF highBottlenecks >= 2
          THEN << [type |-> "risk", about |-> "multiple_bottlenecks",
                   count |-> highBottlenecks] >>
          ELSE IF highBottlenecks = 0
          THEN << [type |-> "positive", about |-> "no_bottlenecks"] >>
          ELSE <<>>)
      \o (IF daysRemaining < 7 /\ FLt(projectProgress, Frac(8, 10))
          THEN << [type |-> "urgent", about |-> "deadline"] >>
          ELSE IF daysRemaining < 14 /\ FLt(projectProgress, Frac(6, 10))
          THEN << [type |-> "risk", about |-> "deadline"] >>
          ELSE <<>>)

\* =================================================== durationPrediction.js
\* Durations are integers in tenths of a day.  A product with a decimal
\* literal is taken at FScale resolution with the literal moved one unit in
\* the direction of its binary64 error (0.7 and 0.3 lie below, 1.3 above
\* their decimal values; 1.5 is exact), so that a product on a rounding tie
\* falls on the side the double falls on.
FScale == 10 * 10000
F07 == 7 * 10000 - 1
F03 == 3 * 10000 - 1
F13 == 13 * 10000 + 1
F15 == 15 * 10000

\* Math.round(n / d) for d > 0: the nearest integer, ties towards +Infinity
MathRound(n, d) == (2 * n + d) \div (2 * d)

IntMax(a, b) == IF a > b THEN a ELSE b

\* base duration in days by priority
BasePrediction(priority) ==
  IF priority = "high" THEN 3
  ELSE IF priority = "medium" THEN 5
  ELSE 7

\* adjustedPrediction at FScale resolution
AdjustedPrediction(task) ==
  IF task.status = "in-progress" THEN BasePrediction(task.priority) * F07
  ELSE IF task.status = "review" THEN BasePrediction(task.priority) * F03
  ELSE BasePrediction(task.priority) * FScale

\* Math.round(adjustedPrediction * 10) / 10, in tenths
HeuristicPredictedDays(task) == MathRound(AdjustedPrediction(task) * 10, FScale)

\* Math.max(0.5, Math.round(predictedDays * 0.7 * 10) / 10), in tenths
HeuristicBestCase(predictedDays) == IntMax(5, MathRound(predictedDays * F07, FScale))

\* Math.round(predictedDays * 1.5 * 10) / 10, in tenths
HeuristicWorstCase(predictedDays) == MathRound(predictedDays * F15, FScale)

\* the model-backed branch; raw is the model's output in hundredths of a day
MlPredictedDays(raw) == MathRound(raw, 10)
MlBestCase(raw) == IntMax(5, MathRound(raw * F07, FScale * 10))
MlWorstCase(raw) == MathRound(raw * F13, FScale * 10)

\* setDate(getDate() + predictedDays) drops the fraction of a day: the
\* completion date as whole days from today
CompletionOffset(predictedDays) == predictedDays \div 10

\* the heuristic result under the label of the model-backed branch
HeuristicDurationAsMl(taskId, task) ==
  LET predictedDays == HeuristicPredictedDays(task)
  IN  [taskId |-> taskId,
       predictedDays |-> predictedDays,
       bestCase |-> HeuristicBestCase(predictedDays),
       worstCase |-> HeuristicWorstCase(predictedDays),
       estimatedCompletionDate |-> CompletionOffset(predictedDays),
       confidence |-> 75,
       method |-> "ml"]

HeuristicDuration(taskId, task) ==
  LET predictedDays == HeuristicPredictedDays(task)
  IN  [taskId |-> taskId,
       predictedDays |-> predictedDays,
       bestCase |-> HeuristicBestCase(predictedDays),
       worstCase |-> HeuristicWorstCase(predictedDays),
       estimatedCompletionDate |-> CompletionOffset(predictedDays),
       confidence |-> 75,
       method |-> "heuristic"]

MlDuration(taskId, raw) ==
  [taskId |-> taskId,
   predictedDays |-> MlPredictedDays(raw),
   bestCase |-> MlBestCase(raw),
   worstCase |-> MlWorstCase(raw),
   estimatedCompletionDate |-> CompletionOffset(MlPredictedDays(raw)),
   confidence |-> 80,
   method |-> "ml"]

\* one entry of predictProjectTimeline: it carries no method field
TimelineEntry(taskId, raw) ==
  [taskId |-> taskId,
   predictedDays |-> MlPredictedDays(raw),
   estimatedCompletionDate |-> CompletionOffset(MlPredictedDays(raw)),
   confidence |-> 80]

\* PRIORITY_MAP[task.priority] || 0.5 and STATUS_MAP[task.status] || 0, in
\* hundredths: the map sends low to 0, which || replaces by 0.5
PriorityValue(task) == IF task.priority = "high" THEN 100 ELSE 50
StatusValue(task) ==
  IF task.status = "in-progress" THEN 50
  ELSE IF task.status = "review" THEN 75
  ELSE IF task.status = "completed" THEN 100
  ELSE 0

\* A loaded duration model is a function of the two task features (the other
\* two inputs are the constants 0.5).  The candidates are affine; the output
\* layer has no activation, so the output is any real number.
TrainedModel ==
  [state |-> "loaded", bias |-> 900, wPriority |-> 0 - 300, wStatus |-> 0 - 500]

DurationModels ==
  { TrainedModel,
    [state |-> "loaded", bias |-> 20, wPriority |-> 0, wStatus |-> 0],
    [state |-> "loaded", bias |-> 0 - 120, wPriority |-> 0, wStatus |-> 100] }

\* the values of the variable durationModel that are not a model
Undefined == [state |-> "undefined"]
Null == [state |-> "null"]

\* durationModel.predict(extractTaskFeatures(task)).dataSync()[0], hundredths
Predict(model, task) ==
  model.bias + (model.wPriority * PriorityValue(task)
                + model.wStatus * StatusValue(task)) \div 100

\* predictions.sort by estimatedCompletionDate: a stable sort, by insertion
RECURSIVE InsertByDate(_, _)
InsertByDate(sorted, e) ==
  IF sorted = <<>> THEN <<e>>
  ELSE IF e.estimatedCompletionDate < Head(sorted).estimatedCompletionDate
       THEN <<e>> \o sorted
       ELSE <<Head(sorted)>> \o InsertByDate(Tail(sorted), e)

RECURSIVE SortByDate(_)
SortByDate(s) ==
  IF s = <<>> THEN <<>>
  ELSE InsertByDate(SortByDate(SubSeq(s, 1, Len(s) - 1)), s[Len(s)])

\* ============================================================== the state
VARIABLES
  useTensorFlow,    \* the module-level flag: require('@tensorflow/tfjs-node') succeeded
  durationModel,    \* Undefined, Null or a loaded model
  workflowModel,    \* "undefined", "null" or "model"
  suggestionModel,  \* "undefined", "null" or "model"
  startup,          \* per service, its load-on-startup: pending, loaded or failed
  requestLoads,     \* the startup states in which a request began a model load
  timeZone,         \* the zone of the server's local time
  project,          \* the project document: keyword counts of its texts, its dates
  members,          \* project.members (the owner is user 1)
  tasks,            \* the project's task documents, in store order
  reads,            \* the store queries the latest request issued, in order
  status,           \* the HTTP status of the latest response
  resp,             \* the latest request and its result
  nodeEnv,          \* process.env.NODE_ENV
  requester,        \* who sends the requests
  sent              \* the JSON body of the latest response when it is an error

vars == << useTensorFlow, durationModel, workflowModel, suggestionModel, startup,
           requestLoads, timeZone, project, members, tasks, reads, status, resp,
           nodeEnv, requester, sent >>

\* what no request changes: the flag, the zone, the project document, the
\* environment and the client
fixedVars == << useTensorFlow, timeZone, project, members, nodeEnv, requester >>

Services == {"duration", "workflow", "suggestion"}

\* User.find({ _id: { $in: [...project.members, project.owner] } })
TeamMembers == SortedSeq(members \cup {Owner})

\* what a request names: a malformed id, a well-formed id of nothing stored,
\* or the stored document
IdKinds == {"malformed", "missing", "existing"}

\* Math.ceil((endDate - now) / day) at the moment of the call
DaysRemainingValues == {0, 10, 20}

\* outputs of a loaded workflow model (a linear output layer of five units:
\* the values are not confined to any range)
MlScoreVectors ==
  { << Frac(1, 10), Frac(1, 5), Frac(1, 4), Frac(1, 10), Frac(1, 20) >>,
    << Frac(0 - 1, 10), Frac(6, 5), Frac(1, 2), Frac(9, 20), Frac(7, 10) >>,
    << Frac(9, 10), Frac(4, 5), Frac(7, 10), Frac(3, 5), Frac(1, 1) >> }

\* a resolved and a rejected promise of operation op called with argument arg
Ok(op, arg, body) == [op |-> op, arg |-> arg, outcome |-> "ok", body |-> body]
Err(op, arg, message) == [op |-> op, arg |-> arg, outcome |-> "error", error |-> message]

\* the message of a rejected store query (the connection is lost, a cast fails)
StoreError == "MongoError"

\* the message the catch block of each route of routes/ai.js looks for
NotFoundMessage(op) ==
  IF op = "predictTaskDuration" THEN "Task not found" ELSE "Project not found"

\* the routes of routes/ai.js: res.json(result) answers 200; the catch block
\* answers 404 for the one message it compares with and 500 for every other
AiRouteStatus(result) ==
  IF result.outcome = "ok" THEN 200
  ELSE IF result.error = NotFoundMessage(result.op) THEN 404
  ELSE 500

\* the values of NODE_ENV the process is started with
NodeEnvs == {"production", "development", "test"}

\* the clients: one that sends no token, an authenticated user who is neither
\* owner nor member of the project, a member, the owner, an administrator
Requesters == {"anonymous", "outsider", "member", "owner", "admin"}

\* the access test of the project and task routes of app.js
HasAccess(who) == who \in {"admin", "owner", "member"}

\* err.stack: the message followed by the frames; stack: null
Stack(message) == << message, "at" >>
NoStack == << >>

\* no error body: nothing was sent yet, or res.json(result) sent resp.body
NoJson == [result |-> TRUE]

\* the first field of the 500 body of each route of routes/ai.js
RouteMessage(op) ==
  IF op = "suggestTasks" THEN "Error generating task suggestions"
  ELSE IF op = "predictTaskDuration" THEN "Error predicting task duration"
  ELSE IF op = "predictProjectTimeline" THEN "Error predicting project timeline"
  ELSE "Error optimizing workflow"

\* the body a route of routes/ai.js sends from its catch block
AiRouteJson(result) ==
  IF result.outcome = "ok" THEN NoJson
  ELSE IF result.error = NotFoundMessage(result.op) THEN [message |-> result.error]
  ELSE [message |-> RouteMessage(result.op), error |-> result.error]

\* errorHandler: the body sent for an error that is neither a validation
\* error, a duplicate key nor a token error
ErrorHandlerJson(message) ==
  [success |-> FALSE, message |-> message,
   stack |-> IF nodeEnv = "production" THEN NoStack ELSE Stack(message)]

\* the suggestions written to the store as tasks before they are returned
StoredTasksWithSuggestions(result) ==
  IF result.op = "suggestTasks" /\ result.outcome = "ok"
  THEN tasks \o [i \in DOMAIN result.body |->
                   [status |-> "todo", priority |-> result.body[i].priority,
                    assignedTo |-> Owner, title |-> result.body[i].title]]
  ELSE tasks

\* the stored tasks after an AI operation: the services call find and
\* findById only, and suggestTasks returns its array without saving it
StoredTasks(result) == tasks

\* a route answers: the service's result, its status, the queries it issued,
\* and the store as the service leaves it
Answer(result, queries) ==
  /\ resp' = result
  /\ status' = AiRouteStatus(result)
  /\ reads' = queries
  /\ tasks' = StoredTasks(result)
  /\ sent' = AiRouteJson(result)

\* ================================================================ startup
\* loadOrCreateModel of durationPrediction.js: null without TensorFlow, else a
\* model read from disk or trained, or an exception when training fails too
LoadOrCreateModel ==
  IF ~useTensorFlow THEN {Null}
  ELSE DurationModels \cup {[state |-> "throws"]}

\* the load-on-startup function of durationPrediction.js
InitDurationModel ==
  /\ startup["duration"] = "pending"
  /\ \E outcome \in LoadOrCreateModel :
       /\ durationModel' = IF outcome.state = "throws" THEN durationModel ELSE outcome
       /\ startup' = [startup EXCEPT !["duration"] =
                        IF outcome.state = "loaded" THEN "loaded" ELSE "failed"]
  /\ UNCHANGED << fixedVars, workflowModel, suggestionModel, requestLoads, tasks,
                  reads, status, resp, sent >>

\* the load-on-startup function of workflowOptimization.js
InitWorkflowModel ==
  /\ startup["workflow"] = "pending"
  /\ \E outcome \in (IF useTensorFlow THEN {"model", "throws"} ELSE {"null"}) :
       /\ workflowModel' = IF outcome = "throws" THEN workflowModel ELSE outcome
       /\ startup' = [startup EXCEPT !["workflow"] =
                        IF outcome = "model" THEN "loaded" ELSE "failed"]
  /\ UNCHANGED << fixedVars, durationModel, suggestionModel, requestLoads, tasks,
                  reads, status, resp, sent >>

\* the load-on-startup function of the task suggestion service
InitSuggestionModel ==
  /\ startup["suggestion"] = "pending"
  /\ \E outcome \in (IF useTensorFlow THEN {"model", "throws"} ELSE {"null"}) :
       /\ suggestionModel' = IF outcome = "throws" THEN suggestionModel ELSE outcome
       /\ startup' = [startup EXCEPT !["suggestion"] =
                        IF outcome = "model" THEN "loaded" ELSE "failed"]
  /\ UNCHANGED << fixedVars, durationModel, workflowModel, requestLoads, tasks,
                  reads, status, resp, sent >>

\* ============================================================== requests
\* POST /api/tasks with a validated body: 401 without a token, 404 for a
\* project that does not exist, 403 for a caller without access to it, the
\* error handler's answer when the store rejects, else the document is stored
CreateTask ==
  /\ IF requester = "anonymous"
     THEN /\ resp' = Err("createTask", "unauthenticated", "Authentication required")
          /\ status' = 401
          /\ sent' = [error |-> "Authentication required"]
          /\ tasks' = tasks
          /\ reads' = << >>
     ELSE /\ reads' = << "Project.findById" >>
          /\ \E access \in {"missing", "rejected",
                             IF HasAccess(requester) THEN "granted" ELSE "forbidden"} :
               IF access = "missing"
               THEN /\ resp' = Err("createTask", access, "Project not found")
                    /\ status' = 404
                    /\ sent' = [success |-> FALSE, message |-> "Project not found"]
                    /\ tasks' = tasks
               ELSE IF access = "rejected"
               THEN /\ resp' = Err("createTask", access, StoreError)
                    /\ status' = 500
                    /\ sent' = ErrorHandlerJson(StoreError)
                    /\ tasks' = tasks
               ELSE IF access = "forbidden"
               THEN /\ resp' = Err("createTask", access,
                                   "Not authorized to add tasks to this project")
                    /\ status' = 403
                    /\ sent' = [success |-> FALSE,
                                message |-> "Not authorized to add tasks to this project"]
                    /\ tasks' = tasks
               ELSE /\ Len(tasks) < MaxStoredTasks
                    /\ \E doc \in TaskDocs : tasks' = Append(tasks, doc)
                    /\ resp' = Ok("createTask", access, Len(tasks) + 1)
                    /\ status' = 201
                    /\ sent' = NoJson
  /\ UNCHANGED << fixedVars, durationModel, workflowModel, suggestionModel,
                  startup, requestLoads >>

\* predictTaskDuration(taskId) once Task.findById has answered
PredictTaskDurationResult(kind, taskId) ==
  IF kind = "malformed"
  THEN Err("predictTaskDuration", kind, "Invalid task ID format")
  ELSE IF kind = "missing"
  THEN Err("predictTaskDuration", kind, "Task not found")
  ELSE IF useTensorFlow /\ durationModel.state = "loaded"
  THEN Ok("predictTaskDuration", kind,
          MlDuration(taskId, Predict(durationModel, tasks[taskId])))
  ELSE Ok("predictTaskDuration", kind, HeuristicDuration(taskId, tasks[taskId]))

\* the queries predictTaskDuration issues for an id of that kind
TaskDurationReads(kind) ==
  IF kind = "malformed" THEN << >> ELSE << "Task.findById" >>

\* GET /api/ai/tasks/duration/:taskId
PredictTaskDuration ==
  /\ \E kind \in IdKinds :
       \E taskId \in (IF kind = "existing" THEN DOMAIN tasks ELSE {0}) :
         \E rejected \in 0..Len(TaskDurationReads(kind)) :
           Answer(IF rejected > 0
                  THEN Err("predictTaskDuration", kind, StoreError)
                  ELSE PredictTaskDurationResult(kind, taskId),
                  TaskDurationReads(kind))
  /\ UNCHANGED << fixedVars, durationModel, workflowModel, suggestionModel,
                  startup, requestLoads >>

\* the predictions returned in the order of the store
TimelineResultUnsorted(kind, found, model) ==
  IF found = <<>> THEN Ok("predictProjectTimeline", kind, <<>>)
  ELSE IF ~useTensorFlow
  THEN Err("predictProjectTimeline", kind, "TypeError: tf is undefined")
  ELSE IF model.state # "loaded"
  THEN Err("predictProjectTimeline", kind, "TypeError: durationModel is null")
  ELSE Ok("predictProjectTimeline", kind,
          [i \in DOMAIN found |-> TimelineEntry(i, Predict(model, found[i]))])

\* predictProjectTimeline(projectId) of durationPrediction.js.  found is the
\* result of Task.find({ project: projectId }); model is durationModel after
\* the "make sure model is loaded" step.
TimelineResult(kind, found, model) ==
  IF found = <<>> THEN Ok("predictProjectTimeline", kind, <<>>)
  ELSE IF ~useTensorFlow
  THEN Err("predictProjectTimeline", kind, "TypeError: tf is undefined")
  ELSE IF model.state # "loaded"
  THEN Err("predictProjectTimeline", kind, "TypeError: durationModel is null")
  ELSE Ok("predictProjectTimeline", kind,
          SortByDate([i \in DOMAIN found |-> TimelineEntry(i, Predict(model, found[i]))]))

\* the queries predictProjectTimeline issues for an id of that kind
TimelineReads(kind) ==
  IF kind = "malformed" THEN << >> ELSE << "Task.find" >>

\* GET /api/ai/projects/timeline/:projectId
PredictProjectTimeline ==
  \E kind \in IdKinds :
    LET found == IF kind = "existing" THEN tasks ELSE <<>>
    IN  IF kind = "malformed"
        THEN /\ Answer(Err("predictProjectTimeline", kind, "Invalid project ID format"),
                       TimelineReads(kind))
             /\ UNCHANGED << fixedVars, durationModel, workflowModel, suggestionModel,
                             startup, requestLoads >>
        ELSE \/ /\ Answer(Err("predictProjectTimeline", kind, StoreError),
                          TimelineReads(kind))
                /\ UNCHANGED << fixedVars, durationModel, workflowModel, suggestionModel,
                                startup, requestLoads >>
             \/ IF durationModel.state = "loaded"
                THEN /\ Answer(TimelineResult(kind, found, durationModel),
                               TimelineReads(kind))
                     /\ UNCHANGED << fixedVars, durationModel, workflowModel,
                                     suggestionModel, startup, requestLoads >>
                ELSE \E outcome \in LoadOrCreateModel :
                       /\ requestLoads' = IF useTensorFlow
                                          THEN requestLoads \cup {startup["duration"]}
                                          ELSE requestLoads
                       /\ IF outcome.state = "throws"
                          THEN /\ durationModel' = durationModel
                               /\ Answer(Err("predictProjectTimeline", kind,
                                             "model training failed"),
                                         TimelineReads(kind))
                          ELSE /\ durationModel' = outcome
                               /\ Answer(TimelineResult(kind, found, outcome),
                                         TimelineReads(kind))
                       /\ UNCHANGED << fixedVars, workflowModel, suggestionModel,
                                       startup >>

\* optimizeWorkflow(projectId): the result object for the five scores
WorkflowResult(method, scores, daysRemaining) ==
  LET taskAssignments == TaskAssignments(tasks, TeamMembers)
      bottleneckAnalysis == BottleneckAnalysis(scores, tasks, taskAssignments)
  IN  [method |-> method,
       metrics |-> [taskDistribution |-> TasksByStatus(tasks),
                    progress |-> ProjectProgress(tasks),
                    daysRemaining |-> daysRemaining,
                    teamWorkload |-> taskAssignments],
       bottleneckAnalysis |-> bottleneckAnalysis,
       recommendations |-> generateRecommendations(bottleneckAnalysis, tasks, taskAssignments),
       insights |-> generateInsights(bottleneckAnalysis, TasksByStatus(tasks),
                                     daysRemaining, ProjectProgress(tasks))]

\* the three queries of optimizeWorkflow, in the order it awaits them
WorkflowQueries == << "Project.findById", "Task.find", "User.find" >>

\* the queries optimizeWorkflow issues: none for a malformed id, the project
\* lookup alone when it finds nothing, and no query after one that rejects
WorkflowReads(kind, rejected) ==
  IF kind = "malformed" THEN << >>
  ELSE IF rejected > 0 THEN SubSeq(WorkflowQueries, 1, rejected)
  ELSE IF kind = "missing" THEN SubSeq(WorkflowQueries, 1, 1)
  ELSE WorkflowQueries

\* the rejection swallowed: an analysis of what had been read until then
WorkflowFailureZeroFilled(kind, message) ==
  Ok("optimizeWorkflow", kind,
     [method |-> "heuristic", metrics |-> [progress |-> 0], recommendations |-> << >>])

\* catch (error) { throw error }: the rejection of a query is the rejection
\* of optimizeWorkflow
WorkflowFailure(kind, message) == Err("optimizeWorkflow", kind, message)

\* GET /api/ai/projects/optimize/:projectId.  rejected is the position of the
\* query that rejects, 0 when none does.
OptimizeWorkflow ==
  /\ \E kind \in IdKinds :
       \E rejected \in 0..(IF kind = "malformed" THEN 0
                           ELSE IF kind = "missing" THEN 1
                           ELSE Len(WorkflowQueries)) :
         IF kind = "malformed"
         THEN Answer(Err("optimizeWorkflow", kind, "Invalid project ID format"),
                     WorkflowReads(kind, rejected))
         ELSE IF rejected > 0
         THEN Answer(WorkflowFailure(kind, StoreError), WorkflowReads(kind, rejected))
         ELSE IF kind = "missing"
         THEN Answer(Err("optimizeWorkflow", kind, "Project not found"),
                     WorkflowReads(kind, rejected))
         ELSE \E daysRemaining \in DaysRemainingValues :
                IF useTensorFlow /\ workflowModel = "model"
                THEN \E scores \in MlScoreVectors :
                       Answer(Ok("optimizeWorkflow", kind,
                                 WorkflowResult("ml", scores, daysRemaining)),
                              WorkflowReads(kind, rejected))
                ELSE Answer(Ok("optimizeWorkflow", kind,
                               WorkflowResult("heuristic",
                                              HeuristicScores(tasks, TeamMembers),
                                              daysRemaining)),
                            WorkflowReads(kind, rejected))
  /\ UNCHANGED << fixedVars, durationModel, workflowModel, suggestionModel,
                  startup, requestLoads >>

\* ------------------------------------------------------ task suggestion
\* PROJECT_CATEGORIES, which is also the order of the keys of categoryKeywords
Categories == << "development", "marketing", "general" >>

\* A title is its letters in lower case, the number a generic title ends with
\* (0 when it has none) and whether it is written with capital letters.
Title(letters, number, capitals) ==
  [letters |-> letters, number |-> number, capitals |-> capitals]

\* title.toLowerCase()
ToLowerCase(title) == [title EXCEPT !.capitals = FALSE]

\* an entry of TASK_TEMPLATES: its title is written with capitals
Template(letters, priority, category) ==
  [title |-> Title(letters, 0, TRUE), priority |-> priority, category |-> category]

DevelopmentTemplates ==
  << Template("setup development environment", "high", "setup"),
     Template("create project structure", "high", "setup"),
     Template("setup version control", "high", "setup"),
     Template("define api endpoints", "medium", "planning"),
     Template("create database schema", "high", "planning"),
     Template("implement authentication", "high", "implementation"),
     Template("implement user management", "medium", "implementation"),
     Template("create frontend components", "medium", "implementation"),
     Template("setup ci/cd pipeline", "medium", "infrastructure"),
     Template("write unit tests", "medium", "testing"),
     Template("perform integration testing", "medium", "testing"),
     Template("deploy to staging", "medium", "deployment"),
     Template("deploy to production", "high", "deployment"),
     Template("write documentation", "low", "documentation") >>

MarketingTemplates ==
  << Template("define target audience", "high", "planning"),
     Template("conduct market research", "high", "research"),
     Template("create marketing strategy", "high", "planning"),
     Template("design marketing materials", "medium", "creation"),
     Template("setup social media accounts", "medium", "setup"),
     Template("create content calendar", "medium", "planning"),
     Template("launch social media campaign", "high", "execution"),
     Template("monitor campaign performance", "medium", "monitoring"),
     Template("create analytical report", "low", "reporting") >>

GeneralTemplates ==
  << Template("define project scope", "high", "planning"),
     Template("create project timeline", "high", "planning"),
     Template("assign team members", "high", "planning"),
     Template("schedule kick-off meeting", "medium", "communication"),
     Template("create progress reporting template", "low", "communication"),
     Template("conduct weekly status meetings", "medium", "communication"),
     Template("review project milestones", "medium", "monitoring"),
     Template("prepare final delivery", "high", "execution"),
     Template("project retrospective", "low", "closure") >>

\* TASK_TEMPLATES[category]
TaskTemplates(category) ==
  IF category = "development" THEN DevelopmentTemplates
  ELSE IF category = "marketing" THEN MarketingTemplates
  ELSE GeneralTemplates

\* per category, the number of matches of its keywords (new RegExp(keyword,
\* 'g')) in a lower-case title of those letters; a trailing number matches
\* no keyword
KeywordHits(letters) ==
  CASE letters = "setup development environment" -> << 1, 0, 0 >>
    [] letters = "create project structure" -> << 0, 0, 1 >>
    [] letters = "define api endpoints" -> << 1, 0, 0 >>
    [] letters = "create database schema" -> << 1, 0, 0 >>
    [] letters = "implement user management" -> << 0, 0, 1 >>
    [] letters = "create frontend components" -> << 1, 0, 0 >>
    [] letters = "write documentation" -> << 0, 0, 1 >>
    [] letters = "define target audience" -> << 0, 1, 0 >>
    [] letters = "conduct market research" -> << 0, 1, 0 >>
    [] letters = "create marketing strategy" -> << 0, 1, 0 >>
    [] letters = "design marketing materials" -> << 0, 1, 0 >>
    [] letters = "setup social media accounts" -> << 0, 2, 0 >>
    [] letters = "create content calendar" -> << 0, 1, 0 >>
    [] letters = "launch social media campaign" -> << 0, 3, 0 >>
    [] letters = "monitor campaign performance" -> << 0, 1, 0 >>
    [] letters = "create analytical report" -> << 0, 0, 1 >>
    [] letters = "define project scope" -> << 0, 0, 1 >>
    [] letters = "create project timeline" -> << 0, 0, 1 >>
    [] letters = "assign team members" -> << 0, 0, 1 >>
    [] letters = "schedule kick-off meeting" -> << 0, 0, 2 >>
    [] letters = "create progress reporting template" -> << 0, 0, 1 >>
    [] letters = "conduct weekly status meetings" -> << 0, 0, 1 >>
    [] letters = "review project milestones" -> << 0, 0, 1 >>
    [] letters = "project retrospective" -> << 0, 0, 1 >>
    [] letters = "project milestone" -> << 0, 0, 1 >>
    [] letters = "weekly team meeting" -> << 0, 0, 2 >>
    [] OTHER -> << 0, 0, 0 >>

\* the three generic tasks: the first is numbered by the size of the store,
\* the other two by Math.floor(Math.random() * 10) + 1
GenericTasks(stored, meeting, review) ==
  << [title |-> Title("project milestone", stored + 1, TRUE),
      priority |-> "high", category |-> "milestone"],
     [title |-> Title("weekly team meeting", meeting, TRUE),
      priority |-> "medium", category |-> "meeting"],
     [title |-> Title("review progress for week", review, TRUE),
      priority |-> "medium", category |-> "review"] >>

\* the values of Math.floor(Math.random() * 10) + 1
WeekNumbers == 1..10

\* parseInt(req.query.count) || 3: an absent or non-numeric parameter parses
\* to NaN and 0 is falsy, so both become 3
ParseCount(query) ==
  IF ~query.present THEN 3
  ELSE IF query.value = 0 THEN 3
  ELSE query.value

\* array.slice(0, count): a negative count is counted from the end
Slice(s, count) ==
  IF count >= 0
  THEN SubSeq(s, 1, IF count < Len(s) THEN count ELSE Len(s))
  ELSE SubSeq(s, 1, IF Len(s) + count > 0 THEN Len(s) + count ELSE 0)

\* scores[category] after both keyword passes: name matches count double,
\* description matches and matches in the existing task titles once
KeywordScores(proj, found) ==
  [c \in DOMAIN Categories |->
     2 * proj.nameHits[c] + proj.descHits[c]
     + SumSeq([i \in DOMAIN found |->
                 KeywordHits(ToLowerCase(found[i].title).letters)[c]])]

\* the loop "if (score > highestScore)" over the categories from position c,
\* as the pair << highestScore, predictedCategory >>
RECURSIVE HighestFrom(_, _, _)
HighestFrom(scores, c, best) ==
  IF c > Len(scores) THEN best
  ELSE HighestFrom(scores, c + 1,
                   IF scores[c] > best[1] THEN << scores[c], c >> ELSE best)

\* the position in Categories of the category the heuristic predicts
HeuristicCategory(scores) ==
  LET best == HighestFrom(scores, 1, << 0, Len(Categories) >>)
  IN  IF best[1] = 0 THEN Len(Categories) ELSE best[2]

\* totalScore > 0 ? scores[predictedCategory] / totalScore : 0.5
HeuristicConfidence(scores) ==
  IF SumSeq(scores) > 0
  THEN Norm(Frac(scores[HeuristicCategory(scores)], SumSeq(scores)))
  ELSE Frac(1, 2)

\* categoryScores.indexOf(Math.max(...categoryScores)): the first maximum
MlCategory(categoryScores) ==
  CHOOSE c \in DOMAIN categoryScores :
    /\ \A k \in DOMAIN categoryScores : FLe(categoryScores[k], categoryScores[c])
    /\ \A k \in 1..(c - 1) : FLt(categoryScores[k], categoryScores[c])

\* outputs of a loaded suggestion model: a softmax over the three categories
MlCategoryVectors ==
  { << Frac(7, 10), Frac(1, 5), Frac(1, 10) >>,
    << Frac(2, 5), Frac(2, 5), Frac(1, 5) >>,
    << Frac(1, 4), Frac(1, 4), Frac(1, 2) >> }

\* (categoryConfidence * 100).toFixed(2), in hundredths of a percent
ConfidenceText(confidence) == MathRound(confidence.n * 10000, confidence.d)

\* [...categoryTasks, ...generalTasks] without the templates whose lower-case
\* title is the lower-case title of an existing task
NewTaskTemplates(category, found) ==
  LET existingTaskTitles == {ToLowerCase(found[i].title) : i \in DOMAIN found}
      IsNew(template) == ToLowerCase(template.title) \notin existingTaskTitles
  IN  SelectSeq(TaskTemplates(category) \o TaskTemplates("general"), IsNew)

\* the templates suggestTasks selects from: the generic tasks are pushed
\* after the filter when fewer than count templates are left
Candidates(category, found, count, meeting, review) ==
  IF Len(NewTaskTemplates(category, found)) < count
  THEN NewTaskTemplates(category, found) \o GenericTasks(Len(found), meeting, review)
  ELSE NewTaskTemplates(category, found)

\* ---- dates, in half hours since an epoch
DayLength == 48

\* the zone "DST" leaves summer time at FallBack: its clocks are SummerShift
\* ahead before that instant and not after it
FallBack == 24
SummerShift == 2
TimeZones == {"UTC", "DST"}

\* local time of the instant t
LocalTime(zone, t) ==
  IF zone = "DST" /\ t < FallBack THEN t + SummerShift ELSE t

\* the instant of a local time: a local time that occurs twice is read with
\* the offset before the transition
UtcTime(zone, local) ==
  IF zone = "DST" /\ local - SummerShift < FallBack THEN local - SummerShift ELSE local

\* dueDate.setDate(dueDate.getDate() + randomDays): the day of the month
\* moves, the local time of day stays
SetDate(zone, t, days) == UtcTime(zone, LocalTime(zone, t) + days * DayLength)

\* the values of Math.floor(Math.random() * (endDate - startDate) / day) for
\* a random number in [0, 1)
RandomDays(startDate, endDate) ==
  IF endDate > startDate
  THEN {n \in 0..((endDate - startDate) \div DayLength) :
          n * DayLength < endDate - startDate}
  ELSE {n \in (0 - ((startDate - endDate) \div DayLength + 1))..0 :
          (n + 1) * DayLength > endDate - startDate}

\* project.members[...]._id for a random position, or the owner of a
\* project without members
AssigneeChoices ==
  IF members # {} THEN members ELSE {Owner}

\* one element of the returned array
Suggestion(template, days, assignee, confidence, method) ==
  [title |-> template.title,
   priority |-> template.priority,
   category |-> template.category,
   dueDate |-> SetDate(timeZone, project.startDate, days),
   assignedTo |-> assignee,
   createdBy |-> Owner,
   confidence |-> ConfidenceText(confidence),
   method |-> method]

\* a resolved and a rejected suggestTasks; query is the count parameter
SuggestOk(kind, query, body) ==
  [op |-> "suggestTasks", arg |-> kind, query |-> query, outcome |-> "ok", body |-> body]
SuggestErr(kind, query, message) ==
  [op |-> "suggestTasks", arg |-> kind, query |-> query, outcome |-> "error",
   error |-> message]

\* the two queries of suggestTasks, in the order it awaits them
SuggestQueries == << "Project.findById", "Task.find" >>

\* the project looked up before the identifier is validated
SuggestReadsLookupFirst(kind, rejected) ==
  IF rejected > 0 THEN SubSeq(SuggestQueries, 1, rejected)
  ELSE IF kind = "existing" THEN SuggestQueries
  ELSE SubSeq(SuggestQueries, 1, 1)

\* the queries suggestTasks issues: none for a malformed id, the project
\* lookup alone when it finds nothing, and no query after one that rejects
SuggestReads(kind, rejected) ==
  IF kind = "malformed" THEN << >>
  ELSE IF rejected > 0 THEN SubSeq(SuggestQueries, 1, rejected)
  ELSE IF kind = "missing" THEN SubSeq(SuggestQueries, 1, 1)
  ELSE SuggestQueries

\* the count parameters of a request: absent, or an integer
MaxCount == 4
CountQueries ==
  {[present |-> FALSE, value |-> 0]}
    \cup {[present |-> TRUE, value |-> n] : n \in 0..MaxCount}

\* the steps of suggestTasks after both queries have answered: category and
\* confidence are the prediction, by the model or by the keywords
SuggestFrom(kind, query, category, confidence, method) ==
  LET count == ParseCount(query)
      short == Len(NewTaskTemplates(Categories[category], tasks)) < count
  IN  \E meeting \in (IF short THEN WeekNumbers ELSE {1}) :
        \E review \in (IF short THEN WeekNumbers ELSE {1}) :
          LET selected == Slice(Candidates(Categories[category], tasks, count,
                                           meeting, review), count)
          IN  \E days \in [DOMAIN selected -> RandomDays(project.startDate, project.endDate)] :
                \E assignee \in [DOMAIN selected -> AssigneeChoices] :
                  Answer(SuggestOk(kind, query,
                                   [i \in DOMAIN selected |->
                                      Suggestion(selected[i], days[i], assignee[i],
                                                 confidence, method)]),
                         SuggestReads(kind, 0))

\* GET /api/ai/tasks/suggest/:projectId?count=
SuggestTasks ==
  /\ \E kind \in IdKinds :
       \E query \in CountQueries :
         \E rejected \in 0..(IF kind = "malformed" THEN 0
                             ELSE IF kind = "missing" THEN 1
                             ELSE Len(SuggestQueries)) :
           IF kind = "malformed"
           THEN Answer(SuggestErr(kind, query, "Invalid project ID format"),
                       SuggestReads(kind, rejected))
           ELSE IF rejected > 0
           THEN Answer(SuggestErr(kind, query, StoreError), SuggestReads(kind, rejected))
           ELSE IF kind = "missing"
           THEN Answer(SuggestErr(kind, query, "Project not found"),
                       SuggestReads(kind, rejected))
           ELSE IF useTensorFlow /\ suggestionModel = "model"
           THEN \E categoryScores \in MlCategoryVectors :
                  SuggestFrom(kind, query, MlCategory(categoryScores),
                              categoryScores[MlCategory(categoryScores)], "ml")
           ELSE SuggestFrom(kind, query,
                            HeuristicCategory(KeywordScores(project, tasks)),
                            HeuristicConfidence(KeywordScores(project, tasks)),
                            "heuristic")
  /\ UNCHANGED << fixedVars, durationModel, workflowModel, suggestionModel,
                  startup, requestLoads >>

\* ========================================================= specifications
\* a project whose name and description contain no keyword and which ends
\* half an hour after it starts
QuietProject ==
  [nameHits |-> << 0, 0, 0 >>, descHits |-> << 0, 0, 0 >>, startDate |-> 0, endDate |-> 1]

\* a fresh process: the modules have been required, no startup load has
\* finished, the project exists with its team and has no tasks yet
Init ==
  /\ useTensorFlow \in BOOLEAN
  /\ durationModel = Undefined
  /\ workflowModel = "undefined"
  /\ suggestionModel = "undefined"
  /\ startup = [s \in Services |-> "pending"]
  /\ requestLoads = {}
  /\ timeZone = "UTC"
  /\ project = QuietProject
  /\ members = Users \ {Owner}
  /\ tasks = <<>>
  /\ reads = << >>
  /\ status = 0
  /\ resp = [op |-> "none"]
  /\ nodeEnv = "production"
  /\ requester \in {"owner", "outsider"}
  /\ sent = NoJson

Next ==
  \/ InitDurationModel
  \/ InitWorkflowModel
  \/ CreateTask
  \/ PredictTaskDuration
  \/ PredictProjectTimeline
  \/ OptimizeWorkflow

Spec == Init /\ [][Next]_vars

\* the order in which InitAnalysis lists a multiset of task documents
StatusRank(s) ==
  IF s = "todo" THEN 0 ELSE IF s = "in-progress" THEN 1
  ELSE IF s = "review" THEN 2 ELSE 3
PriorityRank(p) == IF p = "low" THEN 0 ELSE IF p = "medium" THEN 1 ELSE 2
DocRank(doc) ==
  (StatusRank(doc.status) * 3 + PriorityRank(doc.priority)) * MaxUsers + doc.assignedTo

\* the stores of up to MaxTasks documents, one order per multiset
SmallStores ==
  UNION { {s \in [1..k -> TaskDocs] :
             \A i \in 1..(k - 1) : DocRank(s[i]) <= DocRank(s[i + 1])} :
          k \in 0..MaxTasks }

\* the numbers of tasks the owner and the second user hold in a two-member team
Workloads == { << 10, 1 >>, << 6, 5 >> }

\* a store in which the owner holds w[1] copies of one document and the
\* second user w[2] copies of another
WorkloadStore(w, mine, theirs) ==
  [i \in 1..(w[1] + w[2]) |->
     IF i <= w[1] THEN [mine EXCEPT !.assignedTo = Owner]
     ELSE [theirs EXCEPT !.assignedTo = Owner + 1]]

WorkloadStores ==
  { WorkloadStore(w, d[1], d[2]) :
      w \in Workloads,
      d \in {x \in TaskDocs \X TaskDocs : x[1].assignedTo = Owner /\ x[2].assignedTo = Owner} }

\* a process whose startup has finished, with or without models, and a
\* project with a small store or with a two-member workload
InitAnalysis ==
  /\ useTensorFlow \in BOOLEAN
  /\ durationModel = (IF useTensorFlow THEN TrainedModel ELSE Null)
  /\ workflowModel = (IF useTensorFlow THEN "model" ELSE "null")
  /\ suggestionModel = (IF useTensorFlow THEN "model" ELSE "null")
  /\ startup = [s \in Services |-> IF useTensorFlow THEN "loaded" ELSE "failed"]
  /\ requestLoads = {}
  /\ timeZone = "UTC"
  /\ project = QuietProject
  /\ \/ /\ members \in SUBSET (Users \ {Owner})
        /\ tasks \in SmallStores
     \/ /\ members = {Owner + 1}
        /\ tasks \in WorkloadStores
  /\ reads = << >>
  /\ status = 0
  /\ resp = [op |-> "none"]
  /\ nodeEnv = "production"
  /\ requester = "owner"
  /\ sent = NoJson

NextAnalysis == OptimizeWorkflow

SpecAnalysis == InitAnalysis /\ [][NextAnalysis]_vars

\* a process whose duration model is settled (one of the loaded models, or
\* none) and a project with a small store
InitDurations ==
  /\ useTensorFlow \in BOOLEAN
  /\ durationModel \in (IF useTensorFlow THEN DurationModels ELSE {Null})
  /\ workflowModel = (IF useTensorFlow THEN "model" ELSE "null")
  /\ suggestionModel = (IF useTensorFlow THEN "model" ELSE "null")
  /\ startup = [s \in Services |-> IF useTensorFlow THEN "loaded" ELSE "failed"]
  /\ requestLoads = {}
  /\ timeZone = "UTC"
  /\ project = QuietProject
  /\ members = Users \ {Owner}
  /\ tasks \in SmallStores
  /\ reads = << >>
  /\ status = 0
  /\ resp = [op |-> "none"]
  /\ nodeEnv = "production"
  /\ requester = "owner"
  /\ sent = NoJson

NextDurations ==
  \/ PredictTaskDuration
  \/ PredictProjectTimeline

SpecDurations == InitDurations /\ [][NextDurations]_vars

\* a stored task with a title
TitledDoc(title) ==
  [status |-> "todo", priority |-> "medium", assignedTo |-> Owner, title |-> title]

\* the stores of the service lifecycle: no task, or one that took the first
\* general template as its title
ServiceStores ==
  { << >>, << TitledDoc(Title("define project scope", 0, TRUE)) >> }

\* a fresh process with all three services and a project with a tiny store
InitServices ==
  /\ useTensorFlow \in BOOLEAN
  /\ durationModel = Undefined
  /\ workflowModel = "undefined"
  /\ suggestionModel = "undefined"
  /\ startup = [s \in Services |-> "pending"]
  /\ requestLoads = {}
  /\ timeZone = "UTC"
  /\ project = QuietProject
  /\ members = Users \ {Owner}
  /\ tasks \in ServiceStores
  /\ reads = << >>
  /\ status = 0
  /\ resp = [op |-> "none"]
  /\ nodeEnv = "production"
  /\ requester = "owner"
  /\ sent = NoJson

NextServices ==
  \/ InitDurationModel
  \/ InitWorkflowModel
  \/ InitSuggestionModel
  \/ SuggestTasks
  \/ PredictTaskDuration
  \/ PredictProjectTimeline
  \/ OptimizeWorkflow

SpecServices == InitServices /\ [][NextServices]_vars

\* ---- the projects and stores the suggestion service is checked on
MaxHits == 1
MaxTitled == 1
MaxDays == 1

\* the titles a user gave to tasks: templates, one of them in lower case
TitleChoices ==
  { Title("setup development environment", 0, FALSE),
    Title("launch social media campaign", 0, TRUE),
    Title("define project scope", 0, TRUE) }

TitledStores ==
  UNION { [1..k -> {TitledDoc(t) : t \in TitleChoices}] : k \in 0..MaxTitled }

\* a store that adopted every general template and then a weekly meeting
AdoptedStore ==
  [i \in 1..(Len(GeneralTemplates) + 1) |->
     IF i <= Len(GeneralTemplates)
     THEN TitledDoc(GeneralTemplates[i].title)
     ELSE TitledDoc(Title("weekly team meeting", 4, FALSE))]

\* a store that adopted every general template but the last
NearlyAdoptedStore ==
  [i \in 1..(Len(GeneralTemplates) - 1) |-> TitledDoc(GeneralTemplates[i].title)]

\* projects by their texts, lasting half an hour
TextProjects ==
  { [nameHits |-> n, descHits |-> d, startDate |-> 0, endDate |-> 1] :
      n \in [DOMAIN Categories -> 0..MaxHits],
      d \in {x \in [DOMAIN Categories -> 0..MaxHits] : SumSeq(x) <= MaxHits} }

\* projects by their dates: endDate is after startDate, as the validation of
\* a project requires, by whole days or by half an hour more or less
DatedProjects ==
  { p \in { [nameHits |-> << 0, 0, 0 >>, descHits |-> << 0, 0, 0 >>,
             startDate |-> s, endDate |-> s + d * DayLength + e] :
              s \in {0}, d \in 0..MaxDays, e \in {0, 1} } :
      p.endDate > p.startDate }

\* a process whose startup has finished, with the suggestion model or
\* without it, and a project drawn by its texts (which only the keyword
\* branch reads), by its dates or by its store
InitSuggest ==
  /\ useTensorFlow \in BOOLEAN
  /\ suggestionModel \in (IF useTensorFlow THEN {"model", "undefined"} ELSE {"null"})
  /\ durationModel = (IF useTensorFlow THEN TrainedModel ELSE Null)
  /\ workflowModel = (IF useTensorFlow THEN "model" ELSE "null")
  /\ startup = [s \in Services |->
                  IF s = "suggestion"
                  THEN (IF suggestionModel = "model" THEN "loaded" ELSE "failed")
                  ELSE (IF useTensorFlow THEN "loaded" ELSE "failed")]
  /\ requestLoads = {}
  /\ \/ /\ project \in TextProjects
        /\ suggestionModel # "model"
        /\ timeZone = "UTC"
        /\ members = Users \ {Owner}
        /\ tasks \in TitledStores
     \/ /\ project \in DatedProjects
        /\ timeZone \in TimeZones
        /\ members \in SUBSET (Users \ {Owner})
        /\ tasks = << >>
     \/ /\ project = QuietProject
        /\ timeZone = "UTC"
        /\ members = Users \ {Owner}
        /\ tasks \in {AdoptedStore, NearlyAdoptedStore}
  /\ reads = << >>
  /\ status = 0
  /\ resp = [op |-> "none"]
  /\ nodeEnv = "production"
  /\ requester = "owner"
  /\ sent = NoJson

NextSuggest == SuggestTasks

SpecSuggest == InitSuggest /\ [][NextSuggest]_vars

\* a process whose startup has finished, with or without models, started in
\* any environment and addressed by any client; the project has no task yet
InitAccess ==
  /\ useTensorFlow \in BOOLEAN
  /\ durationModel = (IF useTensorFlow THEN TrainedModel ELSE Null)
  /\ workflowModel = (IF useTensorFlow THEN "model" ELSE "null")
  /\ suggestionModel = (IF useTensorFlow THEN "model" ELSE "null")
  /\ startup = [s \in Services |-> IF useTensorFlow THEN "loaded" ELSE "failed"]
  /\ requestLoads = {}
  /\ timeZone = "UTC"
  /\ project = QuietProject
  /\ members = Users \ {Owner}
  /\ tasks = << >>
  /\ reads = << >>
  /\ status = 0
  /\ resp = [op |-> "none"]
  /\ nodeEnv \in NodeEnvs
  /\ requester \in Requesters
  /\ sent = NoJson

NextAccess ==
  \/ CreateTask
  \/ PredictTaskDuration
  \/ PredictProjectTimeline
  \/ OptimizeWorkflow

SpecAccess == InitAccess /\ [][NextAccess]_vars

\* ============================================================= properties
\* C1: on the heuristic path each of the five bottleneck scores that
\* optimizeWorkflow returns lies in [0,1].
C1_HeuristicScoresInUnitInterval ==
  (resp.op = "optimizeWorkflow" /\ resp.outcome = "ok" /\ resp.body.method = "heuristic")
    => \A k \in Dimensions :
         LET score == resp.body.bottleneckAnalysis[k].score
         IN  IsFinite(score) /\ 0 <= score.n /\ score.n <= score.d

C3_RecommendationsNeverEmpty ==
  (resp.op = "optimizeWorkflow" /\ resp.outcome = "ok")
    => Len(resp.body.recommendations) >= 1

\* an analysis whose only recommendation is the generic one
C3_OnlyTheGenericRecommendation ==
  /\ resp.op = "optimizeWorkflow" /\ resp.outcome = "ok"
  /\ Len(resp.body.recommendations) = 1
  /\ resp.body.recommendations[1].action = "retrospective"

\* C4: in every analysis the level of each dimension is fixed by its score:
\* below 0.3 low, from 0.3 and below 0.6 medium, from 0.6 high; so between
\* two dimensions the one with the greater score never has the lesser level.
C4_LevelByThresholds ==
  (resp.op = "optimizeWorkflow" /\ resp.outcome = "ok")
    => LET a == resp.body.bottleneckAnalysis
           rank(level) == IF level = "low" THEN 0 ELSE IF level = "medium" THEN 1 ELSE 2
       IN  /\ \A k \in Dimensions :
                /\ (10 * a[k].score.n < 3 * a[k].score.d) => a[k].level = "low"
                /\ (10 * a[k].score.n >= 3 * a[k].score.d
                    /\ 10 * a[k].score.n < 6 * a[k].score.d) => a[k].level = "medium"
                /\ (10 * a[k].score.n >= 6 * a[k].score.d) => a[k].level = "high"
           /\ \A k, m \in Dimensions :
                (a[k].score.n * a[m].score.d <= a[m].score.n * a[k].score.d)
                  => rank(a[k].level) <= rank(a[m].level)

\* an analysis in which all three levels occur, one at score 0.5
C4_AllThreeLevels ==
  /\ resp.op = "optimizeWorkflow" /\ resp.outcome = "ok"
  /\ {resp.body.bottleneckAnalysis[k].level : k \in Dimensions} = {"low", "medium", "high"}
  /\ \E k \in Dimensions : resp.body.bottleneckAnalysis[k].score = Frac(1, 2)

\* C5: for a project without tasks the heuristic analysis returns progress 0
\* and four status counts of 0; every status ratio is 0 and every score is a
\* finite number.
C5_EmptyProjectDividesNothing ==
  (/\ resp.op = "optimizeWorkflow" /\ resp.outcome = "ok"
   /\ resp.body.method = "heuristic" /\ Len(tasks) = 0)
    => /\ resp.body.metrics.progress = Zero
       /\ \A s \in Statuses : resp.body.metrics.taskDistribution[s] = 0
       /\ \A s \in Statuses : StatusRatio(tasks, s) = Zero
       /\ \A k \in Dimensions : IsFinite(resp.body.bottleneckAnalysis[k].score)
       /\ resp.body.bottleneckAnalysis.taskDistribution.score = Zero

C5_EmptyProjectAnalysed ==
  /\ resp.op = "optimizeWorkflow" /\ resp.outcome = "ok"
  /\ resp.body.method = "heuristic" /\ Len(tasks) = 0
  /\ resp.body.metrics.taskDistribution["todo"] = 0

\* C6: the heuristic predictTaskDuration returns, in tenths of a day,
\* predictedDays = base x multiplier (base 3, 5, 7 for high, medium, low;
\* multiplier 0.7 in progress, 0.3 in review, else 1), bestCase = the
\* greater of 0.5 and predictedDays x 0.7 rounded to one decimal, and
\* worstCase = predictedDays x 1.5 rounded to one decimal.
C6_HeuristicDurationByFormula ==
  (/\ resp.op = "predictTaskDuration" /\ resp.outcome = "ok"
   /\ resp.body.method = "heuristic")
    => LET task == tasks[resp.body.taskId]
           base == IF task.priority = "high" THEN 3
                   ELSE IF task.priority = "medium" THEN 5 ELSE 7
           multiplier == IF task.status = "in-progress" THEN 7
                         ELSE IF task.status = "review" THEN 3 ELSE 10
           predictedDays == base * multiplier
           nearest(n, d) == (2 * n + d) \div (2 * d)
       IN  /\ resp.body.predictedDays = predictedDays
           /\ resp.body.bestCase = IntMax(5, nearest(predictedDays * 7, 10))
           /\ resp.body.worstCase = nearest(predictedDays * 15, 10)

\* C7: every result of predictTaskDuration, heuristic or model-backed, has
\* bestCase <= predictedDays <= worstCase.
C7_DurationRangeOrdered ==
  (resp.op = "predictTaskDuration" /\ resp.outcome = "ok")
    => /\ resp.body.bestCase <= resp.body.predictedDays
       /\ resp.body.predictedDays <= resp.body.worstCase

\* C8: every successful response of an AI operation carries a method field
\* that is ml or heuristic; for predictProjectTimeline every entry of the
\* list does.
C8_ResponsesCarryMethod ==
  /\ (resp.op \in {"predictTaskDuration", "optimizeWorkflow"} /\ resp.outcome = "ok")
       => /\ "method" \in DOMAIN resp.body
          /\ resp.body.method \in {"ml", "heuristic"}
  /\ (resp.op = "predictProjectTimeline" /\ resp.outcome = "ok")
       => \A i \in DOMAIN resp.body :
            /\ "method" \in DOMAIN resp.body[i]
            /\ resp.body[i].method \in {"ml", "heuristic"}

\* C9: without the TensorFlow runtime predictProjectTimeline for a project
\* with k >= 1 tasks, when the store answers, returns k entries, one per task, each with the
\* predictedDays of the single-task heuristic.
C9_HeuristicTimelineCoversEveryTask ==
  (/\ resp.op = "predictProjectTimeline" /\ resp.arg = "existing"
   /\ ~useTensorFlow /\ Len(tasks) >= 1
   /\ ~(resp.outcome = "error" /\ resp.error = StoreError))
    => /\ resp.outcome = "ok"
       /\ Len(resp.body) = Len(tasks)
       /\ \A i \in DOMAIN tasks :
            \E j \in DOMAIN resp.body :
              /\ resp.body[j].taskId = i
              /\ resp.body[j].predictedDays = HeuristicPredictedDays(tasks[i])

\* C10: once the duration service's model acquisition at startup has failed,
\* no step begins another model load and no request fails for want of the
\* model.
C10_StartupFailureIsFinal ==
  [][startup["duration"] = "failed"
       => /\ requestLoads' = requestLoads
          /\ (resp' # resp /\ resp'.outcome = "error")
               => resp'.error \notin {"TypeError: tf is undefined",
                                      "TypeError: durationModel is null",
                                      "model training failed"}]_vars

\* the four operations of the AI services
AiOperations ==
  {"suggestTasks", "predictTaskDuration", "predictProjectTimeline", "optimizeWorkflow"}

\* the result of the latest request reports the heuristic method: the result
\* object does, or every element of the result array does
ReportsHeuristic(r) ==
  (r.op \in AiOperations /\ r.outcome = "ok")
    => IF r.op \in {"predictTaskDuration", "optimizeWorkflow"}
       THEN r.body.method = "heuristic"
       ELSE \A i \in DOMAIN r.body :
              "method" \in DOMAIN r.body[i] /\ r.body[i].method = "heuristic"

\* C11: no step of a service changes useTensorFlow after the module has been
\* initialised, and where the runtime was not acquired every result a
\* request produces reports the method 'heuristic'.
C11_FlagFixedAtStartup ==
  [][/\ useTensorFlow' = useTensorFlow
     /\ ~useTensorFlow => ReportsHeuristic(resp')]_vars

\* C11: without the runtime, after every startup load has failed, a single
\* task has been predicted and a workflow analysed
C11_HeuristicProcessAnswered ==
  /\ ~useTensorFlow
  /\ \A s \in Services : startup[s] = "failed"
  /\ resp.op = "predictTaskDuration" /\ resp.outcome = "ok"
  /\ resp.body.method = "heuristic"

\* C12: each AI route answers 404 when the task or project it names does not
\* exist, 400 when the identifier is malformed and 500 for any other failure.
C12_StatusByFailure ==
  (resp.op \in AiOperations)
    => /\ resp.arg = "malformed" => status = 400
       /\ (resp.arg = "missing" /\ resp.outcome = "error"
             /\ resp.error = NotFoundMessage(resp.op)) => status = 404
       /\ (resp.arg # "malformed" /\ resp.outcome = "error"
             /\ resp.error # NotFoundMessage(resp.op)) => status = 500

\* C13: the timeline route, asked for a well-formed identifier of no project
\* while the store answers and the model loads, answers 404 'Project not
\* found'.
C13_TimelineOfMissingProject ==
  (/\ resp.op = "predictProjectTimeline" /\ resp.arg = "missing"
   /\ ~(resp.outcome = "error" /\ resp.error \in {StoreError, "model training failed"}))
    => /\ status = 404
       /\ resp.outcome = "error"
       /\ resp.error = "Project not found"

\* C14: each of the four operations, called with a malformed identifier,
\* fails with the invalid-identifier error and has issued no query against
\* the store in that call.
C14_MalformedIdReadsNothing ==
  (resp.op \in AiOperations /\ resp.arg = "malformed")
    => /\ resp.outcome = "error"
       /\ resp.error \in {"Invalid task ID format", "Invalid project ID format"}
       /\ reads = << >>

\* C14: suggestTasks has rejected a malformed identifier of a project that
\* has a stored task
C14_MalformedSuggestRejected ==
  /\ resp.op = "suggestTasks" /\ resp.arg = "malformed"
  /\ resp.outcome = "error"
  /\ tasks # << >>

\* C15: optimizeWorkflow resolves only when the project was found and the
\* project, task and team queries were all made, and then with the complete
\* analysis of what they returned; otherwise it rejects, with the error of
\* the lookup or of the query that failed, having made each query at most
\* once and none after the failure, and carries no analysis.
C15_WorkflowAllOrNothing ==
  (resp.op = "optimizeWorkflow")
    => /\ \A i, j \in DOMAIN reads : reads[i] = reads[j] => i = j
       /\ resp.outcome = "ok"
            => /\ resp.arg = "existing"
               /\ reads = WorkflowQueries
               /\ resp.body.metrics.taskDistribution = TasksByStatus(tasks)
               /\ resp.body.metrics.teamWorkload = TaskAssignments(tasks, TeamMembers)
               /\ DOMAIN resp.body.bottleneckAnalysis = Dimensions
               /\ resp.body.method = "heuristic"
                    => resp.body = WorkflowResult("heuristic",
                                                  HeuristicScores(tasks, TeamMembers),
                                                  resp.body.metrics.daysRemaining)
       /\ resp.outcome = "error"
            => /\ "body" \notin DOMAIN resp
               /\ resp.error \in {"Invalid project ID format", "Project not found", StoreError}
               /\ resp.error = "Project not found"
                    => (resp.arg = "missing" /\ reads = SubSeq(WorkflowQueries, 1, 1))
               /\ resp.error = StoreError => (reads # << >> /\ resp.arg # "malformed")
       /\ resp.arg = "missing" => resp.outcome = "error"

\* C15: the team query of optimizeWorkflow was rejected after the project
\* and its tasks had been read
C15_TeamQueryRejected ==
  /\ resp.op = "optimizeWorkflow" /\ resp.arg = "existing"
  /\ resp.outcome = "error" /\ resp.error = StoreError
  /\ reads = WorkflowQueries
  /\ tasks # << >>

\* C16: no title in the array suggestTasks returns equals, letter case
\* aside, the title of a task the project already has; the generic titles
\* included.
C16_NoSuggestedTitleExists ==
  (resp.op = "suggestTasks" /\ resp.outcome = "ok")
    => \A i \in DOMAIN resp.body :
         \A j \in DOMAIN tasks :
           ToLowerCase(resp.body[i].title) # ToLowerCase(tasks[j].title)

\* C17: the array returned for count=N, N >= 0, has at most N elements, and
\* at most 3 when no count is given.
C17_AtMostCountSuggestions ==
  (resp.op = "suggestTasks" /\ resp.outcome = "ok")
    => Len(resp.body) <= (IF resp.query.present THEN resp.query.value ELSE 3)

\* the category C18 states for the scores: the one whose score is strictly
\* above every other score, and 'general' when there is none
StatedCategory(scores) ==
  IF \E c \in DOMAIN scores : \A k \in DOMAIN scores \ {c} : scores[c] > scores[k]
  THEN CHOOSE c \in DOMAIN scores : \A k \in DOMAIN scores \ {c} : scores[c] > scores[k]
  ELSE Len(Categories)

\* C18: the keyword branch of suggestTasks suggests from the category whose
\* aggregate score is strictly the highest, and from 'general' when the
\* highest score is shared or all scores are zero: its first suggestion is
\* the first candidate of that category.
C18_TiesDefaultToGeneral ==
  (/\ resp.op = "suggestTasks" /\ resp.outcome = "ok"
   /\ ~(useTensorFlow /\ suggestionModel = "model")
   /\ resp.body # << >>)
    => resp.body[1].title =
         Candidates(Categories[StatedCategory(KeywordScores(project, tasks))],
                    tasks, ParseCount(resp.query), 1, 1)[1].title

\* C19: for a project that ends after it starts, every due date suggestTasks
\* suggests lies in [startDate, endDate].
C19_DueDateWithinProject ==
  (resp.op = "suggestTasks" /\ resp.outcome = "ok" /\ project.endDate > project.startDate)
    => \A i \in DOMAIN resp.body :
         /\ project.startDate <= resp.body[i].dueDate
         /\ resp.body[i].dueDate <= project.endDate

\* C20: the list predictProjectTimeline returns is in ascending order of
\* estimatedCompletionDate: no entry's date is later than the next entry's.
C20_TimelineSortedByDate ==
  (resp.op = "predictProjectTimeline" /\ resp.outcome = "ok")
    => \A i \in 1..(Len(resp.body) - 1) :
         resp.body[i].estimatedCompletionDate <= resp.body[i + 1].estimatedCompletionDate

\* C20: a timeline of two tasks whose second task is expected to complete
\* first, so that the list begins with it
C20_TimelineReordered ==
  /\ resp.op = "predictProjectTimeline" /\ resp.outcome = "ok"
  /\ Len(resp.body) = 2
  /\ resp.body[1].taskId = 2
  /\ resp.body[1].estimatedCompletionDate < resp.body[2].estimatedCompletionDate

\* C21: two successful answers of predictTaskDuration for the same task give
\* the same predictedDays when the stored tasks did not change in between,
\* whatever else the process did between the two requests.
C21_SameTaskSamePrediction ==
  [][(/\ resp.op = "predictTaskDuration" /\ resp.outcome = "ok"
      /\ resp'.op = "predictTaskDuration" /\ resp'.outcome = "ok"
      /\ resp'.body.taskId = resp.body.taskId
      /\ tasks' = tasks)
       => resp'.body.predictedDays = resp.body.predictedDays]_vars

\* C22: the AI operations are read-only: no step of a process serving them
\* changes the stored project, its team or its tasks, and the suggestions
\* returned are not stored.
C22_AiOperationsReadOnly ==
  [][tasks' = tasks /\ project' = project /\ members' = members]_vars

\* suggestions were returned for a project that has a stored task
C22_SuggestionsReturned ==
  /\ resp.op = "suggestTasks" /\ resp.outcome = "ok"
  /\ Len(resp.body) > 0
  /\ tasks # << >>

\* C23: handling a request writes no process-wide state: the three model
\* variables change only in a step of the startup load, and no request begins
\* a model load.
C23_ModelsAssignedAtStartupOnly ==
  [][/\ << durationModel, workflowModel, suggestionModel >>'
          # << durationModel, workflowModel, suggestionModel >>
          => startup' # startup
     /\ requestLoads' = requestLoads]_vars

\* C26: when the heuristic analysis puts taskDistribution at level high, the
\* recommendations include the one keyed to the status that holds the most
\* tasks among todo, in-progress and review: start_tasks,
\* complete_in_progress or review_tasks.
C26_HighDistributionIsAddressed ==
  (/\ resp.op = "optimizeWorkflow" /\ resp.outcome = "ok"
   /\ resp.body.method = "heuristic"
   /\ resp.body.bottleneckAnalysis.taskDistribution.level = "high")
    => LET n == resp.body.metrics.taskDistribution
           action == IF n["todo"] >= n["in-progress"] /\ n["todo"] >= n["review"]
                     THEN "start_tasks"
                     ELSE IF n["in-progress"] >= n["review"]
                     THEN "complete_in_progress"
                     ELSE "review_tasks"
       IN  \E i \in DOMAIN resp.body.recommendations :
             resp.body.recommendations[i].action = action

\* C27: the insights compare the actual progress with the fraction of the
\* project's date span that has elapsed.  With daysRemaining whole days left,
\* the request time lies in the day that ends daysRemaining - 1 days before
\* endDate, so the elapsed fraction lies between the two bounds below; a
\* progress more than 0.1 under the lower bound gets the behind-schedule
\* risk, one more than 0.1 over the upper bound the ahead-of-schedule
\* positive insight.
C27_ProgressAgainstElapsedTime ==
  (/\ resp.op = "optimizeWorkflow" /\ resp.outcome = "ok"
   /\ project.startDate < project.endDate)
    => LET m == resp.body.metrics
           span == project.endDate - project.startDate
           clamp(x) == IF FLt(x, Zero) THEN Zero ELSE IF FGt(x, One) THEN One ELSE x
           atLeast == clamp(Frac(span - m.daysRemaining * DayLength, span))
           atMost == clamp(Frac(span - (m.daysRemaining - 1) * DayLength, span))
           has(about) == \E i \in DOMAIN resp.body.insights :
                           resp.body.insights[i].about = about
       IN  /\ FLt(m.progress, FSub(atLeast, Frac(1, 10))) => has("behind_schedule")
           /\ FGt(m.progress, FAdd(atMost, Frac(1, 10))) => has("ahead_of_schedule")

\* C28: in a heuristic analysis of a project with a team, when every member
\* has the same number of assigned tasks (none at all included)
\* teamLoadBalance is 1, so the resourceBottleneck score is 0 and its level
\* low; otherwise the score is (max - avg) / max of the assigned counts.
C28_EqualLoadIsNoBottleneck ==
  (/\ resp.op = "optimizeWorkflow" /\ resp.outcome = "ok"
   /\ resp.body.method = "heuristic"
   /\ Len(resp.body.metrics.teamWorkload) > 0)
    => LET counts == [i \in DOMAIN resp.body.metrics.teamWorkload |->
                        resp.body.metrics.teamWorkload[i].assignedTasks]
           most == MaxSeq(counts, counts[1])
           least == MinSeq(counts, counts[1])
           r == resp.body.bottleneckAnalysis.resourceBottleneck
       IN  IF most = least
           THEN r.score = Zero /\ r.level = "low"
           ELSE r.score = Frac(most * Len(counts) - SumSeq(counts), most * Len(counts))

\* C30: the titles of one returned array of suggestions are pairwise
\* distinct without regard to case, whatever the category, general included.
C30_SuggestedTitlesDistinct ==
  (resp.op = "suggestTasks" /\ resp.outcome = "ok")
    => \A i, j \in DOMAIN resp.body :
         ToLowerCase(resp.body[i].title) = ToLowerCase(resp.body[j].title) => i = j

\* C29: generic tasks make up for the templates that are missing, so a
\* request for N >= 1 suggestions is answered with exactly N of them.
C29_ExactlyCountSuggestions ==
  (resp.op = "suggestTasks" /\ resp.outcome = "ok" /\ ParseCount(resp.query) >= 1)
    => Len(resp.body) = ParseCount(resp.query)

\* C24: unless NODE_ENV is development, the body of an error response, from
\* an AI route or from the error handler, carries neither the message nor
\* the stack of the storage error that caused it.
C24_StorageErrorTextNotSent ==
  (nodeEnv # "development" /\ resp.op # "none"
   /\ resp.outcome = "error" /\ resp.error = StoreError)
    => /\ "error" \in DOMAIN sent => sent.error # resp.error
       /\ "message" \in DOMAIN sent => sent.message # resp.error
       /\ "stack" \in DOMAIN sent => sent.stack = NoStack

\* C25: an AI operation runs only for an authenticated requester who is
\* administrator, owner or member of the project; any other request to an AI
\* endpoint is rejected with 401 or 403 before the service issues a query or
\* returns a result.
C25_AiOperationsAuthorized ==
  (resp.op \in AiOperations /\ ~HasAccess(requester))
    => /\ status \in {401, 403}
       /\ reads = << >>
       /\ resp.outcome = "error"
====
